---- MODULE Spec2Model ----
(***************************************************************************)
(* A model of result.hpp: the default Error type, Result<T,E> and its      *)
(* specialization Result<void,E>.  A Result is modelled as the std::variant *)
(* it wraps (an index and the active alternative) together with its two    *)
(* template arguments.  Every member function is an operator computing an  *)
(* outcome (what is returned or thrown, which callbacks ran with which      *)
(* arguments, which payloads were moved out of the receiver), and one      *)
(* action per member function applies it to the Result under test.         *)
(***************************************************************************)
EXTENDS Integers, Sequences, FiniteSets, TLC

\* ------------------------------------------------------------------------
\* Bounds of the model
\* ------------------------------------------------------------------------
MaxVal == 2
MaxCode == 1
MaxChain == 2

\* ------------------------------------------------------------------------
\* Input domains
\* ------------------------------------------------------------------------
\* success payloads (T = int)
Values == 0..MaxVal
\* std::string contents used for Error::message / CustomError::details
Messages == {"", "fail", "inner", "handled"}
\* int contents used for Error::code / CustomError::error_code
Codes == 0..MaxCode
\* caller-supplied diagnostics for expect / expect_err
Prefixes == {"", "custom"}
\* the four ref-qualified overloads of every member function
Kinds == {"&", "const&", "&&", "const&&"}
\* the error types E the model instantiates Result with
ErrorTypes == {"Error", "CustomError"}

\* ------------------------------------------------------------------------
\* Payload types
\* ------------------------------------------------------------------------
Error(message, code) == [message |-> message, code |-> code, etype |-> "Error"]

CustomError(error_code, details) ==
    [etype |-> "CustomError", error_code |-> error_code, details |-> details]

\* all values of error type E
ErrorsOf(E) ==
    IF E = "Error" THEN {Error(m, c) : m \in Messages, c \in Codes}
    ELSE {CustomError(c, m) : c \in Codes, m \in Messages}

\* Error::operator== / CustomError::operator==
ErrorEq(a, b) ==
    IF a.etype = "Error"
    THEN b.etype = "Error" /\ a.message = b.message /\ a.code = b.code
    ELSE b.etype = "CustomError" /\ a.error_code = b.error_code /\ a.details = b.details

Ok(value) == [value |-> value]

Err(error) == [error |-> error]

monostate == [monostate |-> TRUE]

\* std::unique_ptr<int>: the empty pointer, and std::make_unique<int>(n), the
\* sole owner of an int holding n
nullptr == [null |-> TRUE]

make_unique(n) == [pointee |-> n]

\* ------------------------------------------------------------------------
\* Result<T,E>: private constructors and factories
\* ------------------------------------------------------------------------
\* Result(std::in_place_index<i>, args...) : data_(std::in_place_index<i>, args...)
Result(T, E, index, alt) ==
    [E |-> E, T |-> T, data_ |-> [index |-> index, alt |-> alt]]

ok(T, E, value) == Result(T, E, 0, Ok(value))

\* T(args...) for T = int: one argument, converted to int
ConstructT(args) == args[1]

\* E(args...): from one E by copy or move, or memberwise from the members in
\* declaration order
ConstructE(E, args) ==
    IF Len(args) = 1 THEN args[1]
    ELSE IF E = "Error" THEN Error(args[1], args[2])
    ELSE CustomError(args[1], args[2])

\* Ok<T>(args...) : value(args...)
ok_in_place(T, E, args) == Result(T, E, 0, Ok(ConstructT(args)))

err(T, E, error) == Result(T, E, 1, Err(error))

\* the default argument of err(message, code)
DefaultCode == 0

\* err(message, code) storing the default code whatever code is handed to it
err_message_ignores_code(T, message, code) ==
    Result(T, "Error", 1, Err(Error(message, DefaultCode)))

\* err(const std::string&, int code = 0) requires E == Error
err_message(T, message, code) == Result(T, "Error", 1, Err(Error(message, code)))

\* Err<E>(args...) : error(args...)
err_in_place(T, E, args) == Result(T, E, 1, Err(ConstructE(E, args)))

\* Result<void,E> factories
void_ok(E) == Result("void", E, 0, monostate)

void_err(E, error) == Result("void", E, 1, error)

void_err_message(message, code) == Result("void", "Error", 1, Error(message, code))

void_err_in_place(E, args) == Result("void", E, 1, ConstructE(E, args))

\* ------------------------------------------------------------------------
\* State inspection
\* ------------------------------------------------------------------------
\* std::holds_alternative<A>(v), A being the alternative at position i
holds_alternative(data, i) == data.index = i

is_ok(self) == holds_alternative(self.data_, 0)

\* is_err testing for the Ok alternative, as is_ok does
is_err_same_as_is_ok(self) == holds_alternative(self.data_, 0)

is_err(self) == holds_alternative(self.data_, 1)

operator_bool(self) == is_ok(self)

void_is_ok(self) == holds_alternative(self.data_, 0)

void_is_err(self) == holds_alternative(self.data_, 1)

void_operator_bool(self) == void_is_ok(self)

\* the member function of the class the static type of self selects
IsOk(self) == IF self.T = "void" THEN void_is_ok(self) ELSE is_ok(self)

IsErr(self) == IF self.T = "void" THEN void_is_err(self) ELSE is_err(self)

OperatorBool(self) ==
    IF self.T = "void" THEN void_operator_bool(self) ELSE operator_bool(self)

\* the E held by an Err Result (std::get<Err<E>>(data_).error, std::get<E>(data_))
ErrorIn(self) == IF self.T = "void" THEN self.data_.alt ELSE self.data_.alt.error

\* the T held by an Ok Result<T,E> (std::get<Ok<T>>(data_).value)
ValueIn(self) == self.data_.alt.value

\* ------------------------------------------------------------------------
\* Outcomes of a member function call
\* ------------------------------------------------------------------------
RetT(v) == [value |-> v, is |-> "T"]

RetE(e) == [error |-> e, is |-> "E"]

RetVoid == [is |-> "void"]

RetBool(b) == [is |-> "bool", bool |-> b]

RetResult(res) == [is |-> "Result", result |-> res]

\* return *this, return std::move(*this): a reference to the receiver itself
RetThis == [is |-> "*this"]

\* a T* (const T* from the const overloads): nullptr, or the address of the
\* value the receiver holds
RetPtr(k, target) == [is |-> IF k = "&" THEN "T*" ELSE "const T*", ptr |-> target]

\* a std::optional: <<>> is std::nullopt, <<x>> holds x
RetOptional(opt) == [is |-> "std::optional", opt |-> opt]

\* throw std::runtime_error(what)
Thrown(what) == [is |-> "std::runtime_error", what |-> what]

\* ret: what the call returned or threw; log: the callback invocations it
\* made, in order; moved: the payload of the receiver handed out as an
\* rvalue ("value", "error"), "written" when a callable wrote through the
\* lvalue it was handed, or "none"
Outcome(ret, log, moved) == [ret |-> ret, log |-> log, moved |-> moved]

\* a throw that has moved the error out of the receiver to build its text
Throws_after_move(what) == Outcome(Thrown(what), <<>>, "error")

Throws(what) == Outcome(Thrown(what), <<>>, "none")

\* a && receiver that keeps its payload: what is handed out is a copy
MovesOut_copies(k, slot) == "none"

\* a mutable lvalue receiver moved from as a mutable rvalue is
MovesOut_from_lvalue(k, slot) == IF k \in {"&", "&&"} THEN slot ELSE "none"

\* an rvalue of a non-const receiver can be moved from; const&& cannot
MovesOut(k, slot) == IF k = "&&" THEN slot ELSE "none"

\* the overload an unqualified call on *this selects inside a member function
\* (*this is an lvalue there, whatever the qualifier of the caller)
LvalueOverload(k) == IF k \in {"&", "&&"} THEN "&" ELSE "const&"

\* the state a moved-from E is left in: the std::string member is valid but
\* unspecified, the int member is copied
MovedFromError(e) ==
    {e} \cup (IF e.etype = "Error" THEN {Error(m, e.code) : m \in Messages}
              ELSE {CustomError(e.error_code, m) : m \in Messages})

\* x = 100: the value "set_value" writes, the largest the model holds
WrittenValue == MaxVal

\* e.message = "handled": the error "set_message" leaves behind
WrittenError(e) ==
    IF e.etype = "Error" THEN Error("handled", e.code)
    ELSE CustomError(e.error_code, "handled")

\* the receivers a call can leave behind: its tag never changes, a payload
\* moved out of it is valid but unspecified (moving an int copies it, a
\* moved-from std::unique_ptr is empty), a payload written through a
\* reference holds what was written
AfterMove(self, moved) ==
    IF moved = "error" /\ self.data_.index = 1
    THEN IF self.T = "void"
         THEN {void_err(self.E, e) : e \in MovedFromError(self.data_.alt)}
         ELSE {err(self.T, self.E, e) : e \in MovedFromError(self.data_.alt.error)}
    ELSE IF moved = "value" /\ self.data_.index = 0 /\ self.T = "unique_ptr"
         THEN {ok(self.T, self.E, nullptr)}
    ELSE IF moved = "written"
         THEN {IF self.data_.index = 0 THEN ok(self.T, self.E, WrittenValue)
               ELSE err(self.T, self.E, WrittenError(self.data_.alt.error))}
    ELSE {self}

\* ------------------------------------------------------------------------
\* Result<T,E>: extraction
\* ------------------------------------------------------------------------
UnwrapMsg == "Attempted to unwrap error result"

UnwrapErrMsg == "Attempted to unwrap_err on ok result"

\* expect whose const& overload takes the throwing branch for Ok<T> as well
expect_const_throws(self, k, msg) ==
    IF self.data_.index = 0
    THEN IF k = "const&" THEN Throws(msg)
         ELSE Outcome(RetT(self.data_.alt.value), <<>>, MovesOut(k, "value"))
    ELSE IF self.E = "Error"
         THEN Throws(msg \o ": " \o self.data_.alt.error.message)
         ELSE Throws(msg)

\* expect appending the error's message without the ": " separator
expect_no_separator(self, k, msg) ==
    IF self.data_.index = 0
    THEN Outcome(RetT(self.data_.alt.value), <<>>, MovesOut(k, "value"))
    ELSE IF self.E = "Error"
         THEN Throws(msg \o self.data_.alt.error.message)
         ELSE Throws(msg)

\* std::visit over data_: Ok<T> returns the value, Err<Error> throws with the
\* error's message appended, any other Err<E> throws msg alone
expect(self, k, msg) ==
    IF self.data_.index = 0
    THEN Outcome(RetT(self.data_.alt.value), <<>>, MovesOut(k, "value"))
    ELSE IF self.E = "Error"
         THEN Throws(msg \o ": " \o self.data_.alt.error.message)
         ELSE Throws(msg)

\* unwrap() &, const&: expect(...); &&, const&&: std::move(expect(...))
unwrap(self, k) ==
    LET o == expect(self, LvalueOverload(k), UnwrapMsg)
    IN  IF o.ret.is = "T" THEN [o EXCEPT !.moved = MovesOut(k, "value")] ELSE o

\* operator*() &, const&: unwrap(); &&, const&&: std::move(unwrap())
operator_deref(self, k) ==
    LET o == unwrap(self, LvalueOverload(k))
    IN  IF o.ret.is = "T" THEN [o EXCEPT !.moved = MovesOut(k, "value")] ELSE o

\* operator->() &, const&: &unwrap(); k is the overload selected
operator_arrow(self, k) ==
    LET o == unwrap(self, k)
    IN  IF o.ret.is = "T" THEN Outcome(RetPtr(k, "value"), <<>>, "none") ELSE o

\* operator->() & takes a mutable lvalue; every other receiver binds to
\* operator->() const&
ArrowOverload(k) == IF k = "&" THEN "&" ELSE "const&"

\* unwrap_err whose const&& overload throws for Err<E> as well
unwrap_err_const_throws(self, k) ==
    IF self.data_.index = 1 /\ k # "const&&"
    THEN Outcome(RetE(self.data_.alt.error), <<>>, MovesOut(k, "error"))
    ELSE Throws(UnwrapErrMsg)

unwrap_err(self, k) ==
    IF self.data_.index = 1
    THEN Outcome(RetE(self.data_.alt.error), <<>>, MovesOut(k, "error"))
    ELSE Throws(UnwrapErrMsg)

\* expect_err throwing the fixed text of unwrap_err instead of msg
expect_err_fixed_text(self, k, msg) ==
    IF is_err(self)
    THEN Outcome(RetE(self.data_.alt.error), <<>>, MovesOut(k, "error"))
    ELSE Throws(UnwrapErrMsg)

expect_err(self, k, msg) ==
    IF is_err(self)
    THEN Outcome(RetE(self.data_.alt.error), <<>>, MovesOut(k, "error"))
    ELSE Throws(msg)

\* ------------------------------------------------------------------------
\* Result<void,E>: extraction
\* ------------------------------------------------------------------------
\* void_expect appending the text of a custom error as well
void_expect_appends_details(self, k, msg) ==
    IF void_is_err(self)
    THEN IF self.E = "Error"
         THEN Throws(msg \o ": " \o self.data_.alt.message)
         ELSE Throws(msg \o ": " \o self.data_.alt.details)
    ELSE Outcome(RetVoid, <<>>, "none")

void_expect(self, k, msg) ==
    IF void_is_err(self)
    THEN IF self.E = "Error"
         THEN Throws(msg \o ": " \o self.data_.alt.message)
         ELSE Throws(msg)
    ELSE Outcome(RetVoid, <<>>, "none")

\* unwrap() &, const&: expect(...); &&, const&&: std::move(*this).expect(...)
void_unwrap(self, k) == void_expect(self, k, UnwrapMsg)

void_unwrap_err(self, k) ==
    IF self.data_.index = 1
    THEN Outcome(RetE(self.data_.alt), <<>>, MovesOut(k, "error"))
    ELSE Throws(UnwrapErrMsg)

void_expect_err(self, k, msg) ==
    IF void_is_err(self)
    THEN Outcome(RetE(self.data_.alt), <<>>, MovesOut(k, "error"))
    ELSE Throws(msg)

\* dispatch on the static type of the receiver
Expect(self, k, msg) ==
    IF self.T = "void" THEN void_expect(self, k, msg) ELSE expect(self, k, msg)

Unwrap(self, k) == IF self.T = "void" THEN void_unwrap(self, k) ELSE unwrap(self, k)

UnwrapErr(self, k) ==
    IF self.T = "void" THEN void_unwrap_err(self, k) ELSE unwrap_err(self, k)

ExpectErr(self, k, msg) ==
    IF self.T = "void" THEN void_expect_err(self, k, msg) ELSE expect_err(self, k, msg)

\* ------------------------------------------------------------------------
\* Callbacks handed to the combinators
\* ------------------------------------------------------------------------
\* std::string::length() of the text an error carries, as a T
LengthOf(e) == Len(IF e.etype = "Error" THEN e.message ELSE e.details) % (MaxVal + 1)

\* the error a failing callback reports
InnerError(E) == IF E = "Error" THEN Error("inner", 1) ELSE CustomError(1, "inner")

\* an error that differs from e in its code
OtherError(e) ==
    IF e.etype = "Error" THEN Error("fail", (e.code + 1) % (MaxCode + 1))
    ELSE CustomError((e.error_code + 1) % (MaxCode + 1), "fail")

\* the same text and code in the other error type
ConvertError(e) ==
    IF e.etype = "Error" THEN CustomError(e.code, e.message)
    ELSE Error(e.details, e.error_code)

\* callables taking the success payload (none for Result<void,E>); those
\* written for a std::unique_ptr<int> take it by value
MapFns(T) ==
    IF T = "void" THEN {"one", "noop"}
    ELSE IF T = "unique_ptr" THEN {"bump", "deref"}
    ELSE {"double_value", "add_one", "to_void"}

\* callables taking the success payload and returning a Result
AndThenFns(T) ==
    IF T = "void" THEN {"v_ok", "v_err", "v_unit"}
    ELSE IF T = "unique_ptr" THEN {"renew", "reject"}
    ELSE {"to_ok", "to_err", "parse", "to_unit", "counter_fn"}

\* callables taking the error and returning a Result<T,E>
OrElseFns == {"recover", "fail_recover", "recover_0"}

\* callables taking the error and returning an error
MapErrFns == {"remap", "convert"}

\* callables taking the error and returning a T (nothing for Result<void,E>)
UnwrapOrElseFns(T) == IF T = "void" THEN {"side_effect"} ELSE {"length", "zero"}

\* pairs of callables handed to match: ok_fn takes the success payload
\* (nothing for Result<void,E>), err_fn takes the error, both return the same
\* type
MatchFns(T) ==
    IF T = "void" THEN {"one_or_length", "mark"}
    ELSE IF T = "unique_ptr" THEN {"deref_or_length"}
    ELSE {"double_or_length", "mark", "overwrite"}

\* the calls match describes: map(g), and_then(g), or_else(g), unwrap_or(d)
\* and is_ok()
DescribedCalls ==
    ({"map"} \X (MapFns("int") \cup MapFns("void")))
    \cup ({"and_then"} \X (AndThenFns("int") \cup AndThenFns("void")))
    \cup ({"or_else"} \X OrElseFns)
    \cup ({"unwrap_or"} \X {ToString(d) : d \in Values})
    \cup {<<"is_ok", "">>}

\* the pair of callables that describes the call name(a) through match
Described(name, a) == name \o "(" \o a \o ")"

DescribedPairs == {Described(c[1], c[2]) : c \in DescribedCalls}

\* the call a pair describes
CallOf(f) == CHOOSE c \in DescribedCalls : f = Described(c[1], c[2])

\* the lambda written on one side of a pair
Lambda(side, f) == side \o " of " \o f

Lambdas == {Lambda(l[1], l[2]) : l \in {"ok_fn", "err_fn"} \X DescribedPairs}

\* the side a lambda is written on and the call its pair describes
LambdaOf(f) ==
    LET l == CHOOSE l \in {"ok_fn", "err_fn"} \X DescribedPairs : f = Lambda(l[1], l[2])
    IN  <<l[1]>> \o CallOf(l[2])

\* the ok_fn of a pair: and_then(g) is described with g itself as ok_fn
OkFn(f) ==
    CASE f = "double_or_length" -> "double_value"
      [] f = "deref_or_length"  -> "deref"
      [] f = "one_or_length"    -> "one"
      [] f = "mark"             -> "mark_ok"
      [] f = "overwrite"        -> "set_value"
      [] f \in DescribedPairs   ->
            IF CallOf(f)[1] = "and_then" THEN CallOf(f)[2] ELSE Lambda("ok_fn", f)

\* the err_fn of a pair: or_else(g) is described with g itself as err_fn
ErrFn(f) ==
    CASE f = "double_or_length" -> "length"
      [] f = "deref_or_length"  -> "length"
      [] f = "one_or_length"    -> "length"
      [] f = "mark"             -> "mark_err"
      [] f = "overwrite"        -> "set_message"
      [] f \in DescribedPairs   ->
            IF CallOf(f)[1] = "or_else" THEN CallOf(f)[2] ELSE Lambda("err_fn", f)

\* ok_fn and err_fn take their argument by mutable lvalue reference and
\* write through it, so only match() & takes them
WritesThrough(f) == f = "overwrite"

\* callables handed to inspect / inspect_err: "peek" takes its argument by
\* const reference, "take" takes it by value
InspectFns == {"peek", "take"}

\* the parameter of f is an object initialised from the argument: from an
\* rvalue argument it is move-constructed
TakesByValue(f) == f = "take"

\* f returns void
ReturnsVoid(f) == f \in {"to_void", "noop", "side_effect"}

\* the callable x -> f(x).and_then(g)
Composed(f, g) == f \o " then " \o g

ComposedCalls ==
    (AndThenFns("int") \cup AndThenFns("void"))
    \X (AndThenFns("int") \cup AndThenFns("void"))

ComposedFns == {Composed(c[1], c[2]) : c \in ComposedCalls}

\* the f and the g of a composed callable
ComposedOf(h) == CHOOSE c \in ComposedCalls : h = Composed(c[1], c[2])

\* the success type U of the Result<U,E> an and_then callable returns; a
\* composed callable returns what its last and_then returns
ResultTypeOf(f) ==
    LET g == IF f \in ComposedFns THEN ComposedOf(f)[2] ELSE f
    IN  IF g \in {"to_unit", "v_err", "v_unit"} THEN "void"
        ELSE IF g = "renew" THEN "unique_ptr"
        ELSE "int"

\* std::invoke_result_t<F, ...> of a map callable that does not return void
ValueTypeOf(f) == IF f = "bump" THEN "unique_ptr" ELSE "int"

\* one entry of the invocation log: f was called with these arguments
Call(f, args) == [args |-> args, fn |-> f]

\* Result<U,E>::err(error)
ErrOf(U, E, error) == IF U = "void" THEN void_err(E, error) ELSE err(U, E, error)

\* the success type U of the Result<U,E> that map(g) or and_then(g) returns
DescribedTypeOf(name, g) ==
    IF name = "and_then" THEN ResultTypeOf(g)
    ELSE IF ReturnsVoid(g) THEN "void"
    ELSE ValueTypeOf(g)

RECURSIVE Invoke(_, _, _, _)
RECURSIVE AndThenImpl(_, _, _)
\* std::invoke(f, args...): what f returns.  T and E are the template
\* arguments of the receiver the callable was written for.  The callables
\* taking a std::unique_ptr<int> test it before they dereference it.  The
\* lambdas of a pair that describes a call through match are x -> ok(g(x))
\* (g(x) and then ok() when g returns void), x -> ok(x), x -> x, x -> true
\* on the ok side and e -> err(e), e -> d, e -> false on the err side.  A
\* composed callable calls and_then on the temporary its first callable
\* returned.
Invoke(f, T, E, args) ==
    CASE f = "double_value" -> RetT((2 * args[1].value) % (MaxVal + 1))
      [] f = "add_one"      -> RetT((args[1].value + 1) % (MaxVal + 1))
      [] f = "to_void"      -> RetVoid
      [] f = "bump"         ->
            RetT(IF args[1].value = nullptr THEN nullptr
                 ELSE make_unique((args[1].value.pointee + 1) % (MaxVal + 1)))
      [] f = "deref"        ->
            RetT(IF args[1].value = nullptr THEN 0 ELSE args[1].value.pointee)
      [] f = "renew"        ->
            RetResult(ok("unique_ptr", E,
                         IF args[1].value = nullptr THEN make_unique(0)
                         ELSE make_unique((args[1].value.pointee + 1) % (MaxVal + 1))))
      [] f = "reject"       -> RetResult(err("int", E, InnerError(E)))
      [] f = "one"          -> RetT(1)
      [] f = "noop"         -> RetVoid
      [] f = "to_ok"        -> RetResult(ok("int", E, (args[1].value + 1) % (MaxVal + 1)))
      [] f = "to_err"       -> RetResult(err("int", E, InnerError(E)))
      [] f = "parse"        -> RetResult(IF args[1].value % 2 = 0
                                         THEN ok("int", E, args[1].value \div 2)
                                         ELSE err("int", E, InnerError(E)))
      [] f = "to_unit"      -> RetResult(void_ok(E))
      [] f = "counter_fn"   -> RetResult(ok("int", E, args[1].value))
      [] f = "v_ok"         -> RetResult(ok("int", E, 1))
      [] f = "v_err"        -> RetResult(void_err(E, InnerError(E)))
      [] f = "v_unit"       -> RetResult(void_ok(E))
      [] f = "recover"      -> RetResult(
            IF T = "void" THEN void_ok(E)
            ELSE IF T = "unique_ptr" THEN ok(T, E, make_unique(LengthOf(args[1].error)))
            ELSE ok(T, E, LengthOf(args[1].error)))
      [] f = "fail_recover" -> RetResult(IF T = "void"
                                         THEN void_err(E, OtherError(args[1].error))
                                         ELSE err(T, E, OtherError(args[1].error)))
      [] f = "recover_0"    -> RetResult(
            IF (IF E = "Error" THEN args[1].error.code ELSE args[1].error.error_code) = 0
            THEN (IF T = "void" THEN void_ok(E)
                  ELSE IF T = "unique_ptr" THEN ok(T, E, make_unique(0))
                  ELSE ok(T, E, 0))
            ELSE (IF T = "void" THEN void_err(E, args[1].error)
                  ELSE err(T, E, args[1].error)))
      [] f = "remap"        -> RetE(OtherError(args[1].error))
      [] f = "convert"      -> RetE(ConvertError(args[1].error))
      [] f = "length"       -> RetT(LengthOf(args[1].error))
      [] f = "zero"         -> RetT(0)
      [] f = "side_effect"  -> RetVoid
      [] f = "mark_ok"      -> RetVoid
      [] f = "set_value"    -> RetVoid
      [] f = "set_message"  -> RetVoid
      [] f = "mark_err"     -> RetVoid
      [] f = "peek"         -> RetVoid
      [] f = "take"         -> RetVoid
      [] f \in ComposedFns  ->
            AndThenImpl(Invoke(ComposedOf(f)[1], T, E, args).result, "&&",
                        ComposedOf(f)[2]).ret
      [] f \in Lambdas      ->
            LET l == LambdaOf(f)
            IN  CASE l[1] = "ok_fn" /\ l[2] = "map" ->
                        RetResult(IF ReturnsVoid(l[3]) THEN void_ok(E)
                                  ELSE ok(ValueTypeOf(l[3]), E,
                                          Invoke(l[3], T, E, args).value))
                  [] l[1] = "ok_fn" /\ l[2] = "or_else" ->
                        RetResult(IF T = "void" THEN void_ok(E)
                                  ELSE ok(T, E, args[1].value))
                  [] l[1] = "ok_fn" /\ l[2] = "unwrap_or" -> RetT(args[1].value)
                  [] l[1] = "ok_fn" /\ l[2] = "is_ok" -> RetBool(TRUE)
                  [] l[1] = "err_fn" /\ l[2] \in {"map", "and_then"} ->
                        RetResult(ErrOf(DescribedTypeOf(l[2], l[3]), E, args[1].error))
                  [] l[1] = "err_fn" /\ l[2] = "unwrap_or" ->
                        RetT(CHOOSE d \in Values : ToString(d) = l[3])
                  [] l[1] = "err_fn" /\ l[2] = "is_ok" -> RetBool(FALSE)

\* ------------------------------------------------------------------------
\* Result<T,E>: combinators
\* ------------------------------------------------------------------------
\* map_impl that forwards a fresh error in place of the receiver's
map_impl_replaces_error(self, k, f) ==
    IF ReturnsVoid(f)
    THEN IF self.data_.index = 0
         THEN Outcome(RetResult(void_ok(self.E)),
                      <<Call(f, <<Ok(self.data_.alt.value)>>)>>, MovesOut(k, "value"))
         ELSE Outcome(RetResult(void_err(self.E, OtherError(self.data_.alt.error))),
                      <<>>, MovesOut(k, "error"))
    ELSE IF self.data_.index = 0
         THEN Outcome(RetResult(ok(ValueTypeOf(f), self.E,
                          Invoke(f, self.T, self.E, <<Ok(self.data_.alt.value)>>).value)),
                      <<Call(f, <<Ok(self.data_.alt.value)>>)>>, MovesOut(k, "value"))
         ELSE Outcome(RetResult(err(ValueTypeOf(f), self.E,
                                    OtherError(self.data_.alt.error))),
                      <<>>, MovesOut(k, "error"))

\* map_impl that does not invoke a callable returning void
map_impl_skips_void(self, k, f) ==
    IF ReturnsVoid(f)
    THEN IF self.data_.index = 0
         THEN Outcome(RetResult(void_ok(self.E)), <<>>, MovesOut(k, "value"))
         ELSE Outcome(RetResult(void_err(self.E, self.data_.alt.error)),
                      <<>>, MovesOut(k, "error"))
    ELSE IF self.data_.index = 0
         THEN Outcome(RetResult(ok(ValueTypeOf(f), self.E,
                          Invoke(f, self.T, self.E, <<Ok(self.data_.alt.value)>>).value)),
                      <<Call(f, <<Ok(self.data_.alt.value)>>)>>, MovesOut(k, "value"))
         ELSE Outcome(RetResult(err(ValueTypeOf(f), self.E, self.data_.alt.error)),
                      <<>>, MovesOut(k, "error"))

map_impl(self, k, f) ==
    IF ReturnsVoid(f)
    THEN IF self.data_.index = 0
         THEN Outcome(RetResult(void_ok(self.E)),
                      <<Call(f, <<Ok(self.data_.alt.value)>>)>>, MovesOut(k, "value"))
         ELSE Outcome(RetResult(void_err(self.E, self.data_.alt.error)),
                      <<>>, MovesOut(k, "error"))
    ELSE IF self.data_.index = 0
         THEN Outcome(RetResult(ok(ValueTypeOf(f), self.E,
                          Invoke(f, self.T, self.E, <<Ok(self.data_.alt.value)>>).value)),
                      <<Call(f, <<Ok(self.data_.alt.value)>>)>>, MovesOut(k, "value"))
         ELSE Outcome(RetResult(err(ValueTypeOf(f), self.E, self.data_.alt.error)),
                      <<>>, MovesOut(k, "error"))

\* and_then_impl that invokes the callable on a default T before forwarding
\* the error
and_then_impl_calls_on_err(self, k, f) ==
    IF self.data_.index = 0
    THEN Outcome(Invoke(f, self.T, self.E, <<Ok(self.data_.alt.value)>>),
                 <<Call(f, <<Ok(self.data_.alt.value)>>)>>, MovesOut(k, "value"))
    ELSE Outcome(RetResult(IF ResultTypeOf(f) = "void"
                           THEN void_err(self.E, self.data_.alt.error)
                           ELSE err(ResultTypeOf(f), self.E, self.data_.alt.error)),
                 <<Call(f, <<Ok(0)>>)>>, MovesOut(k, "error"))

\* and_then_impl that rewraps what the callable returned and loses its error
and_then_impl_swallows_err(self, k, f) ==
    IF self.data_.index = 0
    THEN Outcome(LET res == Invoke(f, self.T, self.E, <<Ok(self.data_.alt.value)>>).result
                 IN  RetResult(IF res.data_.index = 0 THEN res
                               ELSE IF res.T = "void" THEN void_ok(res.E)
                               ELSE ok(res.T, res.E, 0)),
                 <<Call(f, <<Ok(self.data_.alt.value)>>)>>, MovesOut(k, "value"))
    ELSE Outcome(RetResult(IF ResultTypeOf(f) = "void"
                           THEN void_err(self.E, self.data_.alt.error)
                           ELSE err(ResultTypeOf(f), self.E, self.data_.alt.error)),
                 <<>>, MovesOut(k, "error"))

and_then_impl(self, k, f) ==
    IF self.data_.index = 0
    THEN Outcome(Invoke(f, self.T, self.E, <<Ok(self.data_.alt.value)>>),
                 <<Call(f, <<Ok(self.data_.alt.value)>>)>>, MovesOut(k, "value"))
    ELSE Outcome(RetResult(IF ResultTypeOf(f) = "void"
                           THEN void_err(self.E, self.data_.alt.error)
                           ELSE err(ResultTypeOf(f), self.E, self.data_.alt.error)),
                 <<>>, MovesOut(k, "error"))

\* the error type F' the callable maps E to
ErrorTypeOf(f, E) ==
    IF f = "convert" THEN (IF E = "Error" THEN "CustomError" ELSE "Error") ELSE E

\* map_err_impl that builds the Ok result from a default T
map_err_impl_drops_value(self, k, f) ==
    IF self.data_.index = 0
    THEN Outcome(RetResult(ok(self.T, ErrorTypeOf(f, self.E), 0)),
                 <<>>, MovesOut(k, "value"))
    ELSE Outcome(RetResult(err_in_place(self.T, ErrorTypeOf(f, self.E),
                     <<Invoke(f, self.T, self.E, <<Err(self.data_.alt.error)>>).error>>)),
                 <<Call(f, <<Err(self.data_.alt.error)>>)>>, MovesOut(k, "error"))

\* map_err_impl that invokes the callable and then forwards the receiver's own
\* error when the error type does not change
map_err_impl_keeps_error(self, k, f) ==
    IF self.data_.index = 0
    THEN Outcome(RetResult(ok(self.T, ErrorTypeOf(f, self.E), self.data_.alt.value)),
                 <<>>, MovesOut(k, "value"))
    ELSE Outcome(RetResult(err_in_place(self.T, ErrorTypeOf(f, self.E),
                     <<IF ErrorTypeOf(f, self.E) = self.E THEN self.data_.alt.error
                       ELSE Invoke(f, self.T, self.E, <<Err(self.data_.alt.error)>>).error>>)),
                 <<Call(f, <<Err(self.data_.alt.error)>>)>>, MovesOut(k, "error"))

\* Result<T,ErrorType>: the callable's result is never an Err<ErrorType>, so
\* the error is always built by err_in_place from what the callable returned
map_err_impl(self, k, f) ==
    IF self.data_.index = 0
    THEN Outcome(RetResult(ok(self.T, ErrorTypeOf(f, self.E), self.data_.alt.value)),
                 <<>>, MovesOut(k, "value"))
    ELSE Outcome(RetResult(err_in_place(self.T, ErrorTypeOf(f, self.E),
                     <<Invoke(f, self.T, self.E, <<Err(self.data_.alt.error)>>).error>>)),
                 <<Call(f, <<Err(self.data_.alt.error)>>)>>, MovesOut(k, "error"))

\* or_else_impl that keeps the original error when the callable fails too
or_else_impl_keeps_error(self, k, f) ==
    IF self.data_.index = 0
    THEN Outcome(RetResult(ok(self.T, self.E, self.data_.alt.value)),
                 <<>>, MovesOut(k, "value"))
    ELSE Outcome(LET res == Invoke(f, self.T, self.E, <<Err(self.data_.alt.error)>>).result
                 IN  RetResult(IF res.data_.index = 0 THEN res
                               ELSE err(self.T, self.E, self.data_.alt.error)),
                 <<Call(f, <<Err(self.data_.alt.error)>>)>>, MovesOut(k, "error"))

or_else_impl(self, k, f) ==
    IF self.data_.index = 0
    THEN Outcome(RetResult(ok(self.T, self.E, self.data_.alt.value)),
                 <<>>, MovesOut(k, "value"))
    ELSE Outcome(Invoke(f, self.T, self.E, <<Err(self.data_.alt.error)>>),
                 <<Call(f, <<Err(self.data_.alt.error)>>)>>, MovesOut(k, "error"))

\* contains answering is_ok() without comparing the value
contains_ignores_value(self, value) ==
    Outcome(RetBool(is_ok(self)), <<>>, "none")

\* if (is_ok()) return value held == value; return false
contains(self, value) ==
    IF is_ok(self)
    THEN Outcome(RetBool(self.data_.alt.value = value), <<>>, "none")
    ELSE Outcome(RetBool(FALSE), <<>>, "none")

\* to_optional whose && overload returns std::nullopt whatever the state
to_optional_rvalue_empty(self, k) ==
    IF is_ok(self) /\ k # "&&"
    THEN Outcome(RetOptional(<<self.data_.alt.value>>), <<>>, MovesOut(k, "value"))
    ELSE Outcome(RetOptional(<<>>), <<>>, "none")

\* k is the overload selected: "const&" or "&&"
to_optional(self, k) ==
    IF is_ok(self)
    THEN Outcome(RetOptional(<<self.data_.alt.value>>), <<>>, MovesOut(k, "value"))
    ELSE Outcome(RetOptional(<<>>), <<>>, "none")

\* to_optional() && takes a mutable rvalue; every other receiver binds to
\* to_optional() const&
ToOptionalOverload(k) == IF k = "&&" THEN "&&" ELSE "const&"

\* try_unwrap whose const overload returns nullptr whatever the state
try_unwrap_const_returns_null(self, k) ==
    IF is_ok(self) /\ k = "&"
    THEN Outcome(RetPtr(k, "value"), <<>>, "none")
    ELSE Outcome(RetPtr(k, "nullptr"), <<>>, "none")

\* k is the overload selected: "&" or "const&"
try_unwrap(self, k) ==
    IF is_ok(self)
    THEN Outcome(RetPtr(k, "value"), <<>>, "none")
    ELSE Outcome(RetPtr(k, "nullptr"), <<>>, "none")

\* try_unwrap() & takes a mutable lvalue; every other receiver binds to
\* try_unwrap() const&
TryUnwrapOverload(k) == IF k = "&" THEN "&" ELSE "const&"

\* unwrap_or whose && overload returns the default whatever the state
unwrap_or_rvalue_returns_default(self, k, default_val) ==
    IF is_ok(self) /\ k # "&&"
    THEN Outcome(RetT(self.data_.alt.value), <<>>, MovesOut(k, "value"))
    ELSE Outcome(RetT(default_val), <<>>, "none")

\* k is the overload selected: "const&" or "&&"
unwrap_or(self, k, default_val) ==
    IF is_ok(self)
    THEN Outcome(RetT(self.data_.alt.value), <<>>, MovesOut(k, "value"))
    ELSE Outcome(RetT(default_val), <<>>, "none")

\* overload resolution between unwrap_or(const T&) const& and
\* unwrap_or(T&&) &&: the second needs a mutable rvalue receiver and an rvalue
\* default, every other call binds to the first
UnwrapOrOverload(k, dk) == IF k = "&&" /\ dk = "rvalue" THEN "&&" ELSE "const&"

unwrap_or_else(self, k, f) ==
    IF is_ok(self)
    THEN Outcome(RetT(self.data_.alt.value), <<>>, MovesOut(k, "value"))
    ELSE Outcome(Invoke(f, self.T, self.E, <<Err(self.data_.alt.error)>>),
                 <<Call(f, <<Err(self.data_.alt.error)>>)>>, MovesOut(k, "error"))

\* match_impl that reaches the error through unwrap()
match_impl_unwraps(self, k, f) ==
    IF self.data_.index = 0
    THEN Outcome(Invoke(OkFn(f), self.T, self.E, <<Ok(self.data_.alt.value)>>),
                 <<Call(OkFn(f), <<Ok(self.data_.alt.value)>>)>>,
                 IF WritesThrough(f) THEN "written" ELSE MovesOut(k, "value"))
    ELSE unwrap(self, k)

\* match_impl that runs err_fn after ok_fn on an Ok receiver
match_impl_calls_both(self, k, f) ==
    IF self.data_.index = 0
    THEN Outcome(Invoke(OkFn(f), self.T, self.E, <<Ok(self.data_.alt.value)>>),
                 <<Call(OkFn(f), <<Ok(self.data_.alt.value)>>),
                   Call(ErrFn(f), <<Err(InnerError(self.E))>>)>>,
                 IF WritesThrough(f) THEN "written" ELSE MovesOut(k, "value"))
    ELSE Outcome(Invoke(ErrFn(f), self.T, self.E, <<Err(self.data_.alt.error)>>),
                 <<Call(ErrFn(f), <<Err(self.data_.alt.error)>>)>>,
                 IF WritesThrough(f) THEN "written" ELSE MovesOut(k, "error"))

\* match_impl that hands the callables a copy of the payload
match_impl_passes_copy(self, k, f) ==
    IF self.data_.index = 0
    THEN Outcome(Invoke(OkFn(f), self.T, self.E, <<Ok(self.data_.alt.value)>>),
                 <<Call(OkFn(f), <<Ok(self.data_.alt.value)>>)>>, "none")
    ELSE Outcome(Invoke(ErrFn(f), self.T, self.E, <<Err(self.data_.alt.error)>>),
                 <<Call(ErrFn(f), <<Err(self.data_.alt.error)>>)>>, "none")

\* std::visit over data_: Ok<T> invokes ok_fn with the value, Err<E> invokes
\* err_fn with the error, each as std::forward<T0>(arg) hands it; the call
\* returns what the invoked callable returned
match_impl(self, k, f) ==
    IF self.data_.index = 0
    THEN Outcome(Invoke(OkFn(f), self.T, self.E, <<Ok(self.data_.alt.value)>>),
                 <<Call(OkFn(f), <<Ok(self.data_.alt.value)>>)>>,
                 IF WritesThrough(f) THEN "written" ELSE MovesOut(k, "value"))
    ELSE Outcome(Invoke(ErrFn(f), self.T, self.E, <<Err(self.data_.alt.error)>>),
                 <<Call(ErrFn(f), <<Err(self.data_.alt.error)>>)>>,
                 IF WritesThrough(f) THEN "written" ELSE MovesOut(k, "error"))

\* if (is_ok()) std::invoke(f, value), the value as an rvalue in the && and
\* const&& overloads; return *this
inspect(self, k, f) ==
    IF is_ok(self)
    THEN Outcome(RetThis, <<Call(f, <<Ok(self.data_.alt.value)>>)>>,
                 IF TakesByValue(f) THEN MovesOut(k, "value") ELSE "none")
    ELSE Outcome(RetThis, <<>>, "none")

\* if (is_err()) std::invoke(f, error), the error as an rvalue in the && and
\* const&& overloads; return *this
inspect_err(self, k, f) ==
    IF is_err(self)
    THEN Outcome(RetThis, <<Call(f, <<Err(self.data_.alt.error)>>)>>,
                 IF TakesByValue(f) THEN MovesOut(k, "error") ELSE "none")
    ELSE Outcome(RetThis, <<>>, "none")

\* ------------------------------------------------------------------------
\* Result<void,E>: combinators
\* ------------------------------------------------------------------------
\* void_map_impl that hands the std::monostate to the callable
void_map_impl_passes_monostate(self, k, f) ==
    IF ReturnsVoid(f)
    THEN IF self.data_.index = 0
         THEN Outcome(RetResult(void_ok(self.E)), <<Call(f, <<monostate>>)>>, "none")
         ELSE Outcome(RetResult(void_err(self.E, self.data_.alt)),
                      <<>>, MovesOut(k, "error"))
    ELSE IF self.data_.index = 0
         THEN Outcome(RetResult(ok("int", self.E,
                          Invoke(f, self.T, self.E, <<>>).value)),
                      <<Call(f, <<monostate>>)>>, "none")
         ELSE Outcome(RetResult(err("int", self.E, self.data_.alt)),
                      <<>>, MovesOut(k, "error"))

void_map_impl(self, k, f) ==
    IF ReturnsVoid(f)
    THEN IF self.data_.index = 0
         THEN Outcome(RetResult(void_ok(self.E)), <<Call(f, <<>>)>>, "none")
         ELSE Outcome(RetResult(void_err(self.E, self.data_.alt)),
                      <<>>, MovesOut(k, "error"))
    ELSE IF self.data_.index = 0
         THEN Outcome(RetResult(ok("int", self.E,
                          Invoke(f, self.T, self.E, <<>>).value)),
                      <<Call(f, <<>>)>>, "none")
         ELSE Outcome(RetResult(err("int", self.E, self.data_.alt)),
                      <<>>, MovesOut(k, "error"))

\* void_and_then_impl that invokes the callable a second time for its result
void_and_then_impl_calls_twice(self, k, f) ==
    IF self.data_.index = 0
    THEN Outcome(Invoke(f, self.T, self.E, <<>>), <<Call(f, <<>>), Call(f, <<>>)>>, "none")
    ELSE Outcome(RetResult(IF ResultTypeOf(f) = "void"
                           THEN void_err(self.E, self.data_.alt)
                           ELSE err(ResultTypeOf(f), self.E, self.data_.alt)),
                 <<>>, MovesOut(k, "error"))

void_and_then_impl(self, k, f) ==
    IF self.data_.index = 0
    THEN Outcome(Invoke(f, self.T, self.E, <<>>), <<Call(f, <<>>)>>, "none")
    ELSE Outcome(RetResult(IF ResultTypeOf(f) = "void"
                           THEN void_err(self.E, self.data_.alt)
                           ELSE err(ResultTypeOf(f), self.E, self.data_.alt)),
                 <<>>, MovesOut(k, "error"))

\* an error of the receiver's own type E goes through err, any other through
\* err_in_place
void_map_err_impl(self, k, f) ==
    IF self.data_.index = 0
    THEN Outcome(RetResult(void_ok(ErrorTypeOf(f, self.E))), <<>>, "none")
    ELSE Outcome(RetResult(
                     IF ErrorTypeOf(f, self.E) = self.E
                     THEN void_err(ErrorTypeOf(f, self.E),
                              Invoke(f, self.T, self.E, <<Err(self.data_.alt)>>).error)
                     ELSE void_err_in_place(ErrorTypeOf(f, self.E),
                              <<Invoke(f, self.T, self.E, <<Err(self.data_.alt)>>).error>>)),
                 <<Call(f, <<Err(self.data_.alt)>>)>>, MovesOut(k, "error"))

\* void_or_else_impl that forwards the error without invoking the callable
void_or_else_impl_skips_callable(self, k, f) ==
    IF self.data_.index = 0
    THEN Outcome(RetResult(void_ok(self.E)), <<>>, "none")
    ELSE Outcome(RetResult(void_err(self.E, self.data_.alt)), <<>>, MovesOut(k, "error"))

void_or_else_impl(self, k, f) ==
    IF self.data_.index = 0
    THEN Outcome(RetResult(void_ok(self.E)), <<>>, "none")
    ELSE Outcome(Invoke(f, self.T, self.E, <<Err(self.data_.alt)>>),
                 <<Call(f, <<Err(self.data_.alt)>>)>>, MovesOut(k, "error"))

\* void_unwrap_or_else that runs the callable without testing is_err()
void_unwrap_or_else_always_calls(self, k, f) ==
    IF void_is_err(self)
    THEN Outcome(RetVoid, <<Call(f, <<Err(self.data_.alt)>>)>>, MovesOut(k, "error"))
    ELSE Outcome(RetVoid, <<Call(f, <<Err(InnerError(self.E))>>)>>, "none")

\* the fourth overload cannot deduce F, so a const rvalue receiver binds to
\* the const& overload
void_unwrap_or_else(self, k, f) ==
    IF void_is_err(self)
    THEN Outcome(RetVoid, <<Call(f, <<Err(self.data_.alt)>>)>>, MovesOut(k, "error"))
    ELSE Outcome(RetVoid, <<>>, "none")

\* std::monostate invokes ok_fn with no argument, E invokes err_fn with it
void_match_impl(self, k, f) ==
    IF self.data_.index = 0
    THEN Outcome(Invoke(OkFn(f), self.T, self.E, <<>>), <<Call(OkFn(f), <<>>)>>, "none")
    ELSE Outcome(Invoke(ErrFn(f), self.T, self.E, <<Err(self.data_.alt)>>),
                 <<Call(ErrFn(f), <<Err(self.data_.alt)>>)>>, MovesOut(k, "error"))

void_inspect(self, k, f) ==
    IF void_is_ok(self)
    THEN Outcome(RetThis, <<Call(f, <<>>)>>, "none")
    ELSE Outcome(RetThis, <<>>, "none")

void_inspect_err(self, k, f) ==
    IF void_is_err(self)
    THEN Outcome(RetThis, <<Call(f, <<Err(self.data_.alt)>>)>>,
                 IF TakesByValue(f) THEN MovesOut(k, "error") ELSE "none")
    ELSE Outcome(RetThis, <<>>, "none")

\* the one overload, to_optional() const, takes every receiver
void_to_optional(self, k) ==
    IF self.data_.index = 0
    THEN Outcome(RetOptional(<<monostate>>), <<>>, "none")
    ELSE Outcome(RetOptional(<<>>), <<>>, "none")

\* dispatch on the static type of the receiver
MapImpl(self, k, f) ==
    IF self.T = "void" THEN void_map_impl(self, k, f) ELSE map_impl(self, k, f)

AndThenImpl(self, k, f) ==
    IF self.T = "void" THEN void_and_then_impl(self, k, f) ELSE and_then_impl(self, k, f)

MapErrImpl(self, k, f) ==
    IF self.T = "void" THEN void_map_err_impl(self, k, f) ELSE map_err_impl(self, k, f)

OrElseImpl(self, k, f) ==
    IF self.T = "void" THEN void_or_else_impl(self, k, f) ELSE or_else_impl(self, k, f)

UnwrapOrElse(self, k, f) ==
    IF self.T = "void" THEN void_unwrap_or_else(self, k, f) ELSE unwrap_or_else(self, k, f)

MatchImpl(self, k, f) ==
    IF self.T = "void" THEN void_match_impl(self, k, f) ELSE match_impl(self, k, f)

ToOptional(self, k) ==
    IF self.T = "void" THEN void_to_optional(self, "const&")
    ELSE to_optional(self, ToOptionalOverload(k))

Inspect(self, k, f) ==
    IF self.T = "void" THEN void_inspect(self, k, f) ELSE inspect(self, k, f)

InspectErr(self, k, f) ==
    IF self.T = "void" THEN void_inspect_err(self, k, f) ELSE inspect_err(self, k, f)

\* ------------------------------------------------------------------------
\* The program under test: one Result and the last call made on it
\* ------------------------------------------------------------------------
VARIABLES
    r,      \* the Result the caller holds
    pre,    \* r as it was when the last call was made
    op,     \* the member function last called
    kind,   \* the ref-qualified overload the call selected (for operator->,
            \* the receiver it was called on)
    fn,     \* the callable handed to it, "none" if it takes none
    msg,    \* the text handed to it, "" if it takes none
    ret,    \* what the call returned or threw
    log,    \* the invocations of callables the call made
    chain,  \* how many combinator results the caller has chained on
    arg,    \* the values of type T handed to the call, <<>> if it takes none
    trail   \* the chain of map / and_then calls the last call ends

vars == <<r, pre, op, kind, fn, msg, ret, log, chain, arg, trail>>

\* the member functions that return a new Result, on which a chain goes on
Combinators == {"map", "and_then", "map_err", "or_else"}

\* no chain of map / and_then calls is under way
NoTrail == [len |-> 0, failed |-> <<>>, calls |-> 0, composed |-> <<>>]

\* what the callable of a map / and_then call yields when it is applied
\* directly to the payload alt of an Ok Result<T,E>: <<payload>>, or <<>> when
\* it returns an Err
Applied(name, f, T, E, alt) ==
    LET args == IF T = "void" THEN <<>> ELSE <<alt>>
        out == Invoke(f, T, E, args)
    IN  IF name = "map"
        THEN (IF ReturnsVoid(f) THEN <<monostate>> ELSE <<Ok(out.value)>>)
        ELSE (IF out.result.data_.index = 0 THEN <<out.result.data_.alt>> ELSE <<>>)

\* the chain after the call name(f) with outcome o was made on self: len
\* calls long, failed the position and the error of the first call that
\* returned an Err, calls invocations of callables so far, composed the
\* callables of the chain applied one after the other to the payload the
\* chain started from
Trail(before, name, self, f, o) ==
    [len |-> before.len + 1,
     failed |-> IF before.failed # <<>> THEN before.failed
                ELSE IF o.ret.result.data_.index = 1
                     THEN <<before.len + 1, ErrorIn(o.ret.result)>>
                     ELSE <<>>,
     calls |-> before.calls + Len(o.log),
     composed |-> IF before.len = 0
                  THEN (IF self.data_.index = 0
                        THEN Applied(name, f, self.T, self.E, self.data_.alt) ELSE <<>>)
                  ELSE IF before.composed = <<>> THEN <<>>
                  ELSE Applied(name, f, self.T, self.E, before.composed[1])]

\* every Result a factory can build
Factories ==
    {ok("int", E, v) : E \in ErrorTypes, v \in Values}
    \cup {ok_in_place("int", E, <<v>>) : E \in ErrorTypes, v \in Values}
    \cup UNION {{err("int", E, e) : e \in ErrorsOf(E)} : E \in ErrorTypes}
    \cup {err_message("int", m, c) : m \in Messages, c \in Codes}
    \cup {err_in_place("int", "Error", <<m, c>>) : m \in Messages, c \in Codes}
    \cup {err_in_place("int", "CustomError", <<c, m>>) : m \in Messages, c \in Codes}
    \cup {void_ok(E) : E \in ErrorTypes}
    \cup UNION {{void_err(E, e) : e \in ErrorsOf(E)} : E \in ErrorTypes}
    \cup {void_err_message(m, c) : m \in Messages, c \in Codes}
    \cup {void_err_in_place("Error", <<m, c>>) : m \in Messages, c \in Codes}
    \cup {void_err_in_place("CustomError", <<c, m>>) : m \in Messages, c \in Codes}

\* the caller builds a Result with a factory, handing it the arguments a
Built(res, name, a) ==
    /\ r' = res
    /\ pre' = res
    /\ op' = name
    /\ kind' = "static"
    /\ fn' = "none"
    /\ msg' = ""
    /\ ret' = RetResult(res)
    /\ log' = <<>>
    /\ chain' = 0
    /\ arg' = a
    /\ trail' = NoTrail

\* the caller makes a call on r, handing it the values a, whose outcome is o
CalledWith(o, name, k, f, m, a) ==
    /\ r' \in AfterMove(r, o.moved)
    /\ pre' = r
    /\ op' = name
    /\ kind' = k
    /\ fn' = f
    /\ msg' = m
    /\ ret' = IF o.ret = RetThis THEN RetResult(r') ELSE o.ret
    /\ log' = o.log
    /\ arg' = a
    /\ trail' = IF name \notin {"map", "and_then"} THEN NoTrail
                ELSE Trail(IF op = "chain" THEN trail ELSE NoTrail, name, r, f, o)
    /\ UNCHANGED chain

\* the caller makes a call on r that takes no value of type T
Called(o, name, k, f, m) == CalledWith(o, name, k, f, m, <<>>)

Init == \E res \in Factories : 
    /\ r = res /\ pre = res /\ op = "init" /\ kind = "static" /\ fn = "none"
    /\ msg = "" /\ ret = RetResult(res) /\ log = <<>> /\ chain = 0 /\ arg = <<>>
    /\ trail = NoTrail

MakeOk == \E E \in ErrorTypes, v \in Values : Built(ok("int", E, v), "ok", <<v>>)

MakeOkInPlace ==
    \E E \in ErrorTypes, v \in Values :
        Built(ok_in_place("int", E, <<v>>), "ok_in_place", <<v>>)

MakeErr ==
    \E T \in {"int", "void"}, E \in ErrorTypes : \E e \in ErrorsOf(E) :
        Built(IF T = "void" THEN void_err(E, e) ELSE err(T, E, e), "err", <<e>>)

\* err(message) leaves code to its default argument, err(message, code) gives it
MakeErrMessage ==
    \E T \in {"int", "void"} :
        \E args \in {<<m>> : m \in Messages} \cup (Messages \X Codes) :
            LET code == IF Len(args) = 1 THEN DefaultCode ELSE args[2]
            IN  Built(IF T = "void" THEN void_err_message(args[1], code)
                      ELSE err_message(T, args[1], code), "err_message", args)

MakeErrInPlace ==
    \E T \in {"int", "void"}, E \in ErrorTypes, m \in Messages, c \in Codes :
        LET args == IF E = "Error" THEN <<m, c>> ELSE <<c, m>>
        IN  Built(IF T = "void" THEN void_err_in_place(E, args)
                  ELSE err_in_place(T, E, args), "err_in_place", args)

MakeVoidOk == \E E \in ErrorTypes : Built(void_ok(E), "ok", <<>>)

DoIsOk == Called(Outcome(RetBool(IsOk(r)), <<>>, "none"), "is_ok", "const&", "none", "")

DoIsErr == Called(Outcome(RetBool(IsErr(r)), <<>>, "none"), "is_err", "const&", "none", "")

DoOperatorBool ==
    Called(Outcome(RetBool(OperatorBool(r)), <<>>, "none"), "operator bool", "const&",
           "none", "")

DoExpect == \E k \in Kinds, m \in Prefixes : Called(Expect(r, k, m), "expect", k, "none", m)

DoUnwrap == \E k \in Kinds : Called(Unwrap(r, k), "unwrap", k, "none", "")

DoUnwrapErr == \E k \in Kinds : Called(UnwrapErr(r, k), "unwrap_err", k, "none", "")

DoExpectErr ==
    \E k \in Kinds, m \in Prefixes : Called(ExpectErr(r, k, m), "expect_err", k, "none", m)

\* the receivers a combinator call compiles for: a std::unique_ptr cannot be
\* copied into a by-value parameter or into the new Result, so on a
\* Result<std::unique_ptr<int>,E> only the && overload instantiates
KindsFor(T) == IF T = "unique_ptr" THEN {"&&"} ELSE Kinds

DoMap ==
    \E k \in KindsFor(r.T) : \E f \in MapFns(r.T) :
        Called(MapImpl(r, k, f), "map", k, f, "")

DoAndThen ==
    \E k \in KindsFor(r.T) : \E f \in AndThenFns(r.T) :
        Called(AndThenImpl(r, k, f), "and_then", k, f, "")

DoMapErr ==
    \E k \in KindsFor(r.T), f \in MapErrFns :
        Called(MapErrImpl(r, k, f), "map_err", k, f, "")

DoOrElse ==
    \E k \in KindsFor(r.T), f \in OrElseFns :
        Called(OrElseImpl(r, k, f), "or_else", k, f, "")

DoUnwrapOrElse ==
    \E k \in Kinds : \E f \in UnwrapOrElseFns(r.T) :
        Called(UnwrapOrElse(r, k, f), "unwrap_or_else", k, f, "")

DoOperatorDeref ==
    /\ r.T # "void"
    /\ \E k \in Kinds : Called(operator_deref(r, k), "operator*", k, "none", "")

\* k is the receiver the caller writes -> on; the pointer returned shows
\* which of the two overloads ran
DoOperatorArrow ==
    /\ r.T # "void"
    /\ \E k \in Kinds :
           Called(operator_arrow(r, ArrowOverload(k)), "operator->", k, "none", "")

DoTryUnwrap ==
    /\ r.T # "void"
    /\ \E k \in Kinds :
           Called(try_unwrap(r, TryUnwrapOverload(k)), "try_unwrap",
                  TryUnwrapOverload(k), "none", "")

\* *val_ptr = v: the caller writes through the T* the last call returned
WriteThroughPointer ==
    /\ ret.is = "T*"
    /\ ret.ptr = "value"
    /\ \E v \in Values :
           /\ r' = [r EXCEPT !.data_.alt.value = v]
           /\ arg' = <<v>>
    /\ pre' = r
    /\ op' = "write"
    /\ trail' = NoTrail
    /\ UNCHANGED <<kind, fn, msg, ret, log, chain>>

\* *res = v, res.unwrap() = v, res.unwrap_err() = e: the caller writes
\* through the T& or E& the & overload just returned
WriteThroughReference ==
    /\ op \in {"operator*", "unwrap", "expect", "unwrap_err", "expect_err"}
    /\ kind = "&"
    /\ ret.is \in {"T", "E"}
    /\ \E v \in Values : \E e \in ErrorsOf(r.E) :
           /\ r' = IF ret.is = "T" THEN ok(r.T, r.E, v)
                    ELSE IF r.T = "void" THEN void_err(r.E, e)
                    ELSE err(r.T, r.E, e)
           /\ arg' = IF ret.is = "T" THEN <<v>> ELSE <<e>>
    /\ pre' = r
    /\ op' = IF ret.is = "T" THEN "write" ELSE "write_err"
    /\ trail' = NoTrail
    /\ UNCHANGED <<kind, fn, msg, ret, log, chain>>

\* the one overload, contains(const U&) const, takes every receiver
DoContains ==
    /\ r.T # "void"
    /\ \E v \in Values : CalledWith(contains(r, v), "contains", "const", "none", "", <<v>>)

DoToOptional ==
    \E k \in Kinds :
        Called(ToOptional(r, k), "to_optional",
               IF r.T = "void" THEN "const&" ELSE ToOptionalOverload(k), "none", "")

DoUnwrapOr ==
    /\ r.T # "void"
    /\ \E k \in Kinds, dk \in {"lvalue", "rvalue"}, d \in Values :
           CalledWith(unwrap_or(r, UnwrapOrOverload(k, dk), d), "unwrap_or",
                      UnwrapOrOverload(k, dk), "none", "", <<d>>)

\* callables taking T& and E& are invocable by match() & only
DoMatch ==
    \E k \in KindsFor(r.T) : \E f \in MatchFns(r.T) :
        /\ WritesThrough(f) => k = "&"
        /\ Called(MatchImpl(r, k, f), "match", k, f, "")

DoInspect ==
    \E k \in Kinds, f \in InspectFns : Called(Inspect(r, k, f), "inspect", k, f, "")

DoInspectErr ==
    \E k \in Kinds, f \in InspectFns :
        Called(InspectErr(r, k, f), "inspect_err", k, f, "")

\* the caller goes on with the Result the last call returned
Chain ==
    /\ ret.is = "Result"
    /\ op \in Combinators
    /\ chain < MaxChain
    /\ r' = ret.result
    /\ pre' = r
    /\ op' = "chain"
    /\ chain' = chain + 1
    /\ UNCHANGED <<kind, fn, msg, ret, log, arg, trail>>

Next ==
    \/ MakeOk
    \/ MakeOkInPlace
    \/ MakeErr
    \/ MakeErrMessage
    \/ MakeErrInPlace
    \/ MakeVoidOk
    \/ DoIsOk
    \/ DoIsErr
    \/ DoOperatorBool
    \/ DoExpect
    \/ DoUnwrap
    \/ DoUnwrapErr
    \/ DoExpectErr
    \/ DoMap
    \/ DoAndThen
    \/ DoMapErr
    \/ DoOrElse
    \/ DoUnwrapOrElse
    \/ DoOperatorDeref
    \/ DoOperatorArrow
    \/ DoTryUnwrap
    \/ WriteThroughPointer
    \/ WriteThroughReference
    \/ DoContains
    \/ DoToOptional
    \/ DoUnwrapOr
    \/ DoMatch
    \/ DoInspect
    \/ DoInspectErr
    \/ Chain

Spec == Init /\ [][Next]_vars

\* ------------------------------------------------------------------------
\* The program under test with a move-only payload: the caller starts from
\* a Result<std::unique_ptr<int>,E> and chains combinators on temporaries
\* ------------------------------------------------------------------------
MoveInit ==
    /\ \E E \in ErrorTypes :
           \/ \E v \in Values : r = ok("unique_ptr", E, make_unique(v))
           \/ \E e \in ErrorsOf(E) : r = err("unique_ptr", E, e)
    /\ pre = r /\ op = "init" /\ kind = "static" /\ fn = "none" /\ msg = ""
    /\ ret = RetResult(r) /\ log = <<>> /\ chain = 0 /\ arg = <<>> /\ trail = NoTrail

\* Result<std::unique_ptr<int>>::ok(std::make_unique<int>(v))
MoveMakeOk ==
    \E E \in ErrorTypes, v \in Values :
        Built(ok("unique_ptr", E, make_unique(v)), "ok", <<make_unique(v)>>)

MoveMakeErr ==
    \E E \in ErrorTypes : \E e \in ErrorsOf(E) :
        Built(err("unique_ptr", E, e), "err", <<e>>)

MoveNext ==
    \/ MoveMakeOk
    \/ MoveMakeErr
    \/ DoMap
    \/ DoAndThen
    \/ DoMapErr
    \/ DoOrElse
    \/ DoMatch
    \/ DoUnwrap
    \/ Chain

MoveSpec == MoveInit /\ [][MoveNext]_vars

\* ------------------------------------------------------------------------
\* Properties
\* ------------------------------------------------------------------------
\* the Results a state shows: the one the caller holds, the receiver of the
\* last call, and the Result that call returned
Observed == {r, pre} \cup (IF ret.is = "Result" THEN {ret.result} ELSE {})

\* C1: every Result, general or void, built by a factory or returned by a
\* combinator, is in exactly one of the states Ok and Err, and its boolean
\* conversion equals is_ok(); the three queries report just that.
C1_ExactlyOneState ==
    /\ \A res \in Observed :
          /\ IsOk(res) # IsErr(res)
          /\ OperatorBool(res) = IsOk(res)
          /\ res.data_.index \in {0, 1}
    /\ op = "is_ok" => ret = RetBool(pre.data_.index = 0)
    /\ op = "is_err" => ret = RetBool(pre.data_.index = 1)
    /\ op = "operator bool" => ret = RetBool(pre.data_.index = 0)

C1_Witness ==
    /\ op = "and_then"
    /\ pre.T = "int"
    /\ ret.is = "Result"
    /\ ret.result.T = "void"
    /\ IsErr(ret.result)
    /\ ~IsOk(ret.result)

\* C2: for every value x the Result ok(x) reports is_ok() true, is_err()
\* false and converts to true; unwrap() returns x for every receiver kind and
\* unwrap_err() throws std::runtime_error.
C2_OkContract ==
    \A E \in ErrorTypes, x \in Values :
        pre = ok("int", E, x) =>
            /\ IsOk(pre) /\ ~IsErr(pre) /\ OperatorBool(pre)
            /\ op = "is_ok" => ret = RetBool(TRUE)
            /\ op = "is_err" => ret = RetBool(FALSE)
            /\ op = "operator bool" => ret = RetBool(TRUE)
            /\ op = "unwrap" => ret = RetT(x)
            /\ op = "unwrap_err" => ret.is = "std::runtime_error"

C2_Witness ==
    /\ op = "unwrap"
    /\ kind = "const&"
    /\ chain = 0
    /\ pre = ok("int", "Error", MaxVal)
    /\ ret = RetT(MaxVal)

\* C3: for every error e the Result err(e), general or void, reports is_ok()
\* false, is_err() true and converts to false; unwrap_err() returns an error
\* equal to e in every field and unwrap() throws std::runtime_error instead
\* of returning.
C3_ErrContract ==
    \A T \in {"int", "void"}, E \in ErrorTypes : \A e \in ErrorsOf(E) :
        pre = (IF T = "void" THEN void_err(E, e) ELSE err(T, E, e)) =>
            /\ ~IsOk(pre) /\ IsErr(pre) /\ ~OperatorBool(pre)
            /\ op = "is_ok" => ret = RetBool(FALSE)
            /\ op = "is_err" => ret = RetBool(TRUE)
            /\ op = "operator bool" => ret = RetBool(FALSE)
            /\ op = "unwrap_err" => ret.is = "E" /\ ErrorEq(ret.error, e) /\ ret.error = e
            /\ op = "unwrap" => ret.is = "std::runtime_error"

C3_Witness ==
    /\ op = "unwrap_err"
    /\ kind = "const&&"
    /\ chain = 0
    /\ pre = err("int", "CustomError", CustomError(1, "fail"))
    /\ ret = RetE(CustomError(1, "fail"))

\* C4: on an Err Result<T,E>, expect(msg) throws msg + ": " + error.message
\* when E is Error and msg alone when E is a custom type; on an Ok Result it
\* returns the payload; unwrap() does the same with the fixed text
\* "Attempted to unwrap error result" for msg.
C4_ExpectDiagnostic ==
    pre.T = "int" /\ op \in {"expect", "unwrap"} =>
        LET prefix == IF op = "expect" THEN msg ELSE "Attempted to unwrap error result"
        IN  /\ IsOk(pre) => ret = RetT(ValueIn(pre))
            /\ IsErr(pre) /\ pre.E = "Error" =>
                   ret = Thrown(prefix \o ": " \o ErrorIn(pre).message)
            /\ IsErr(pre) /\ pre.E # "Error" => ret = Thrown(prefix)

C4_Witness ==
    /\ op = "expect"
    /\ pre = err("int", "Error", Error("fail", 0))
    /\ msg = "custom"
    /\ ret = Thrown("custom: fail")

\* C5: on an Ok Result, expect_err(msg) throws exactly msg and unwrap_err()
\* throws "Attempted to unwrap_err on ok result"; on an Err Result both
\* return the error payload and throw nothing.
C5_ExpectErrDiagnostic ==
    op \in {"expect_err", "unwrap_err"} =>
        /\ IsOk(pre) /\ op = "expect_err" => ret = Thrown(msg)
        /\ IsOk(pre) /\ op = "unwrap_err" =>
               ret = Thrown("Attempted to unwrap_err on ok result")
        /\ IsErr(pre) => ret = RetE(ErrorIn(pre))

C5_Witness ==
    /\ op = "expect_err"
    /\ IsOk(pre)
    /\ pre.E = "Error"
    /\ msg = "custom"
    /\ ret = Thrown("custom")

\* C6: map(f) and and_then(f) on an Err(e) receiver of any kind, general or
\* void, invoke f zero times and return an Err Result holding e.
C6_ErrShortCircuit ==
    op \in {"map", "and_then"} /\ IsErr(pre) =>
        /\ log = <<>>
        /\ ret.is = "Result"
        /\ IsErr(ret.result)
        /\ ErrorIn(ret.result) = ErrorIn(pre)
        /\ ret.result.E = pre.E

C6_Witness ==
    /\ op = "and_then"
    /\ kind = "&&"
    /\ pre = err("int", "Error", Error("fail", 1))
    /\ log = <<>>
    /\ ret.is = "Result"
    /\ ErrorIn(ret.result) = Error("fail", 1)

\* C7: or_else(f), unwrap_or_else(f) and map_err(f) on an Ok(x) receiver
\* invoke f zero times; or_else and map_err return an Ok Result holding x
\* and unwrap_or_else returns x.
C7_OkShortCircuit ==
    op \in {"or_else", "unwrap_or_else", "map_err"} /\ IsOk(pre) =>
        /\ log = <<>>
        /\ op \in {"or_else", "map_err"} =>
               /\ ret.is = "Result"
               /\ IsOk(ret.result)
               /\ ret.result.T = pre.T
               /\ ret.result.data_.alt = pre.data_.alt
        /\ op = "unwrap_or_else" /\ pre.T = "int" => ret = RetT(ValueIn(pre))

C7_Witness ==
    /\ op = "map_err"
    /\ fn = "convert"
    /\ pre = ok("int", "Error", MaxVal)
    /\ ret = RetResult(ok("int", "CustomError", MaxVal))
    /\ log = <<>>

\* C8: map(f) on Ok(x) invokes f exactly once, with x, and returns Ok(f(x))
\* with the receiver's error type; when f returns nothing the result is an
\* Ok Result<void,E> and f is still invoked exactly once.
C8_MapOnOk ==
    op = "map" /\ pre.T = "int" /\ IsOk(pre) =>
        /\ log = <<Call(fn, <<Ok(ValueIn(pre))>>)>>
        /\ ret.is = "Result"
        /\ ret.result.E = pre.E
        /\ IsOk(ret.result)
        /\ ReturnsVoid(fn) => ret.result = void_ok(pre.E)
        /\ ~ReturnsVoid(fn) =>
               /\ ret.result.T = "int"
               /\ ValueIn(ret.result) =
                      Invoke(fn, pre.T, pre.E, <<Ok(ValueIn(pre))>>).value

C8_Witness ==
    /\ op = "map"
    /\ fn = "to_void"
    /\ pre = ok("int", "Error", 1)
    /\ ret = RetResult(void_ok("Error"))
    /\ Len(log) = 1

\* C9: and_then(f) on Ok(a) invokes f exactly once, with a, and returns
\* exactly the Result f(a) returned, Ok(b) or Err(e), never a Result holding
\* a Result.
C9_AndThenFlattens ==
    op = "and_then" /\ pre.T = "int" /\ IsOk(pre) =>
        /\ log = <<Call(fn, <<Ok(ValueIn(pre))>>)>>
        /\ ret = Invoke(fn, pre.T, pre.E, <<Ok(ValueIn(pre))>>)
        /\ ret.is = "Result"
        /\ IsOk(ret.result) /\ ret.result.T = "int" => ValueIn(ret.result) \in Values
        /\ IsErr(ret.result) => ErrorIn(ret.result) \in ErrorsOf(ret.result.E)

C9_Witness ==
    /\ op = "and_then"
    /\ fn = "parse"
    /\ pre = ok("int", "Error", 1)
    /\ ret = RetResult(err("int", "Error", Error("inner", 1)))
    /\ Len(log) = 1

\* C10: or_else(f) on Err(e) invokes f exactly once, with e, and returns
\* exactly the Result f returned: Ok(v) when f recovers, Err(e2) when f fails
\* with e2, which replaces e.
C10_OrElseOnErr ==
    op = "or_else" /\ IsErr(pre) =>
        /\ log = <<Call(fn, <<Err(ErrorIn(pre))>>)>>
        /\ ret = Invoke(fn, pre.T, pre.E, <<Err(ErrorIn(pre))>>)
        /\ ret.is = "Result"
        /\ ret.result.T = pre.T
        /\ fn = "recover" => IsOk(ret.result)
        /\ fn = "fail_recover" =>
               IsErr(ret.result) /\ ErrorIn(ret.result) = OtherError(ErrorIn(pre))

C10_Witness ==
    /\ op = "or_else"
    /\ fn = "fail_recover"
    /\ pre = err("int", "Error", Error("inner", 0))
    /\ ret = RetResult(err("int", "Error", Error("fail", 1)))
    /\ Len(log) = 1

\* C11: map_err(f) on an Err(e) receiver, general or void, invokes f exactly
\* once, with e, and returns an Err Result holding the one error f(e), of
\* the error type f returns; the success type is the receiver's.
C11_MapErrOnErr ==
    op = "map_err" /\ IsErr(pre) =>
        /\ log = <<Call(fn, <<Err(ErrorIn(pre))>>)>>
        /\ ret.is = "Result"
        /\ IsErr(ret.result) /\ ~IsOk(ret.result)
        /\ ret.result.T = pre.T
        /\ ret.result.E = ErrorTypeOf(fn, pre.E)
        /\ ErrorIn(ret.result) = Invoke(fn, pre.T, pre.E, <<Err(ErrorIn(pre))>>).error
        /\ ErrorIn(ret.result) \in ErrorsOf(ret.result.E)
        /\ fn = "remap" => ErrorIn(ret.result) = OtherError(ErrorIn(pre))
        /\ fn = "convert" => ErrorIn(ret.result) = ConvertError(ErrorIn(pre))

C11_Witness ==
    /\ op = "map_err"
    /\ fn = "remap"
    /\ kind = "&&"
    /\ pre = err("int", "Error", Error("inner", 0))
    /\ ret = RetResult(err("int", "Error", Error("fail", 1)))
    /\ Len(log) = 1

\* C12: match(ok_fn, err_fn) invokes exactly one of the two callables, exactly
\* once: ok_fn with the success payload (with nothing for Result<void,E>)
\* when Ok, err_fn with the error when Err, and returns what that callable
\* returned.
C12_MatchExactlyOne ==
    op = "match" =>
        /\ Len(log) = 1
        /\ IsOk(pre) =>
               /\ log[1].fn = OkFn(fn) /\ log[1].fn # ErrFn(fn)
               /\ log[1].args = (IF pre.T = "void" THEN <<>> ELSE <<Ok(ValueIn(pre))>>)
               /\ ret = Invoke(OkFn(fn), pre.T, pre.E, log[1].args)
               /\ fn = "double_or_length" => ret = RetT((2 * ValueIn(pre)) % (MaxVal + 1))
               /\ fn = "one_or_length" => ret = RetT(1)
        /\ IsErr(pre) =>
               /\ log[1].fn = ErrFn(fn) /\ log[1].fn # OkFn(fn)
               /\ log[1].args = <<Err(ErrorIn(pre))>>
               /\ ret = Invoke(ErrFn(fn), pre.T, pre.E, log[1].args)
               /\ fn \in {"double_or_length", "one_or_length"} =>
                      ret = RetT(LengthOf(ErrorIn(pre)))
        /\ fn = "mark" => ret = RetVoid

C12_Witness ==
    /\ op = "match"
    /\ fn = "double_or_length"
    /\ kind = "const&"
    /\ pre = err("int", "Error", Error("fail", 0))
    /\ ret = RetT(LengthOf(Error("fail", 0)))
    /\ log = <<Call("length", <<Err(Error("fail", 0))>>)>>

\* C13: inspect(f) invokes f only on an Ok receiver and inspect_err(f) only
\* on an Err receiver, and for every receiver kind, rvalue receivers
\* included, the Result returned is the receiver as it was before the call:
\* same state, same payload.
C13_InspectReturnsOriginal ==
    op \in {"inspect", "inspect_err"} =>
        /\ op = "inspect" => Len(log) = (IF IsOk(pre) THEN 1 ELSE 0)
        /\ op = "inspect_err" => Len(log) = (IF IsErr(pre) THEN 1 ELSE 0)
        /\ ret.is = "Result"
        /\ ret.result = pre

\* C14: unwrap_or(d) returns x on an Ok(x) receiver and d on an Err receiver,
\* in the copying overload (const&) and in the moving overload (&& with an
\* rvalue default), and never throws.
C14_UnwrapOr ==
    op = "unwrap_or" =>
        /\ kind \in {"const&", "&&"}
        /\ IsOk(pre) => ret = RetT(ValueIn(pre))
        /\ IsErr(pre) => ret = RetT(arg[1])
        /\ ret.is = "T"
        /\ log = <<>>

C14_Witness ==
    /\ op = "unwrap_or"
    /\ kind = "&&"
    /\ pre = ok("int", "Error", 1)
    /\ arg = <<MaxVal>>
    /\ ret = RetT(1)

\* C15: unwrap_or_else(f) invokes f exactly once, with the error, on an Err
\* receiver and never on an Ok receiver; Result<T,E> returns f(e) on Err(e)
\* and x on Ok(x); Result<void,E> returns nothing in both states.
C15_UnwrapOrElse ==
    op = "unwrap_or_else" =>
        /\ IsOk(pre) =>
               /\ log = <<>>
               /\ pre.T = "int" => ret = RetT(ValueIn(pre))
        /\ IsErr(pre) =>
               /\ log = <<Call(fn, <<Err(ErrorIn(pre))>>)>>
               /\ pre.T = "int" /\ fn = "length" => ret = RetT(LengthOf(ErrorIn(pre)))
               /\ pre.T = "int" /\ fn = "zero" => ret = RetT(0)
        /\ pre.T = "void" => ret = RetVoid /\ fn = "side_effect"

C15_Witness ==
    /\ op = "unwrap_or_else"
    /\ fn = "side_effect"
    /\ pre = void_err_message("fail", 0)
    /\ ret = RetVoid
    /\ log = <<Call("side_effect", <<Err(Error("fail", 0))>>)>>

\* C16: try_unwrap() never throws and never moves the payload out: it returns
\* nullptr exactly when the receiver is Err and the address of the payload
\* the Result still owns when it is Ok; a write through the pointer leaves
\* the Result Ok and the next unwrap() returns the value written.
C16_TryUnwrap ==
    /\ [](op = "try_unwrap" =>
              /\ ret.is \in {"T*", "const T*"}
              /\ ret.ptr = "nullptr" <=> IsErr(pre)
              /\ ret.ptr = "value" <=> IsOk(pre)
              /\ kind = "&" => ret.is = "T*"
              /\ r = pre
              /\ log = <<>>)
    /\ [](op = "write" =>
              /\ IsOk(pre) /\ IsOk(r)
              /\ ValueIn(r) = arg[1]
              /\ r.T = pre.T /\ r.E = pre.E)
    /\ [][op = "write" /\ op' = "unwrap" => ret' = RetT(arg[1])]_vars

C16_Witness ==
    /\ op = "write"
    /\ pre = ok("int", "Error", 1)
    /\ r = ok("int", "Error", MaxVal)
    /\ arg = <<MaxVal>>
    /\ ret = RetPtr("&", "value")

\* C17: to_optional() on a Result<T,E> returns an optional holding x for
\* Ok(x) and std::nullopt for Err, from the copying overload (lvalue
\* receivers) and from the moving one (rvalue receivers); through the copying
\* overload the receiver keeps its state and payload, and an unwrap() made
\* next still returns x.
C17_ToOptional ==
    /\ [](op = "to_optional" /\ pre.T = "int" =>
              /\ kind \in {"const&", "&&"}
              /\ IsOk(pre) => ret = RetOptional(<<ValueIn(pre)>>)
              /\ IsErr(pre) => ret = RetOptional(<<>>)
              /\ log = <<>>
              /\ kind = "const&" => r = pre
              /\ IsOk(r) = IsOk(pre))
    /\ [][op = "to_optional" /\ kind = "const&" /\ pre.T = "int" /\ IsOk(pre)
             /\ op' = "unwrap" => ret' = RetT(ValueIn(pre))]_vars

C17_Witness ==
    /\ op = "to_optional"
    /\ kind = "&&"
    /\ pre = ok("int", "CustomError", MaxVal)
    /\ ret = RetOptional(<<MaxVal>>)

\* C18: contains(v) returns true exactly when the receiver is Ok and its
\* payload equals v, and false on every Err receiver whatever v is; it
\* throws nothing and leaves the receiver as it was.
C18_Contains ==
    op = "contains" =>
        /\ ret.is = "bool"
        /\ ret.bool <=> (IsOk(pre) /\ pre.data_.alt = Ok(arg[1]))
        /\ IsErr(pre) => ret = RetBool(FALSE)
        /\ r = pre
        /\ log = <<>>

C18_Witness ==
    /\ op = "contains"
    /\ pre = ok("int", "Error", 1)
    /\ arg = <<MaxVal>>
    /\ ret = RetBool(FALSE)

\* C19: std::runtime_error is thrown only by unwrap, expect, operator* and
\* operator-> on an Err receiver and by unwrap_err and expect_err on an Ok
\* receiver, where they always throw it; map, map_err, and_then, or_else and
\* match never throw it, in either state, on Result<T,E> or Result<void,E>.
C19_OnlyUnwrapFamilyThrows ==
    /\ ret.is = "std::runtime_error" =>
           \/ op \in {"unwrap", "expect", "operator*", "operator->"} /\ IsErr(pre)
           \/ op \in {"unwrap_err", "expect_err"} /\ IsOk(pre)
    /\ op \in {"unwrap", "expect", "operator*", "operator->"} /\ IsErr(pre) =>
           ret.is = "std::runtime_error"
    /\ op \in {"unwrap_err", "expect_err"} /\ IsOk(pre) =>
           ret.is = "std::runtime_error"
    /\ op \in {"map", "map_err", "and_then", "or_else"} => ret.is = "Result"
    /\ op = "match" => ret.is \in {"T", "void"}

C19_Witness ==
    /\ op = "operator*"
    /\ kind = "&&"
    /\ pre = err("int", "Error", Error("fail", 0))
    /\ ret = Thrown("Attempted to unwrap error result: fail")

\* C20: along a chain of and_then / map calls, each made on the Result the
\* call before returned, once a call has returned Err(e) every later call
\* returns Err(e) and invokes nothing, so no call invokes its callable more
\* than once and none runs after the failure; when no call fails the chain
\* ends in Ok holding the callables applied one after the other to the
\* payload the chain started from.
C20_ErrAbsorbing ==
    trail.len >= 1 =>
        /\ ret.is = "Result"
        /\ Len(log) <= 1
        /\ trail.calls <= trail.len
        /\ trail.failed # <<>> =>
               /\ IsErr(ret.result)
               /\ ErrorIn(ret.result) = trail.failed[2]
               /\ trail.calls <= trail.failed[1]
               /\ trail.failed[1] < trail.len /\ op # "chain" =>
                      log = <<>> /\ IsErr(pre) /\ ErrorIn(pre) = trail.failed[2]
               /\ trail.composed = <<>>
        /\ trail.failed = <<>> =>
               /\ IsOk(ret.result)
               /\ trail.calls = trail.len
               /\ trail.composed = <<ret.result.data_.alt>>

C20_Witness ==
    /\ op = "map"
    /\ fn = "add_one"
    /\ trail.len = 3
    /\ trail.failed = <<1, Error("inner", 1)>>
    /\ trail.calls = 1
    /\ log = <<>>
    /\ ret = RetResult(err("int", "Error", Error("inner", 1)))

\* res owns an object: it is Ok and its std::unique_ptr is not empty
Owns(res) ==
    res.T = "unique_ptr" /\ res.data_.index = 0 /\ res.data_.alt.value # nullptr

\* how many owners the caller can reach: the Result it holds, the new Result
\* a combinator returned, the std::unique_ptr unwrap() && handed out (after
\* a chain step the Result held is the one returned, counted once)
OwnerCount ==
    (IF Owns(r) THEN 1 ELSE 0)
    + (IF op \in Combinators /\ Owns(ret.result) THEN 1 ELSE 0)
    + (IF op = "unwrap" /\ kind = "&&" /\ pre.T = "unique_ptr" /\ ret.is = "T"
          /\ ret.value # nullptr THEN 1 ELSE 0)

\* C21: a combinator (map, and_then, or_else, map_err, match) called on an
\* rvalue Result holding a move-only payload moves it: the receiver is left
\* with an empty pointer, the callable is handed the payload itself, or_else
\* and map_err put it into the new Result, and at no step do two owners
\* exist; the value unwrapped at the end of a chain of map / and_then calls
\* is the callables of the chain applied one after the other to the payload
\* the chain started from.
C21_MoveOnlyChain ==
    /\ [](OwnerCount <= 1)
    /\ [](op \in Combinators \cup {"match"} /\ kind = "&&" /\ Owns(pre) =>
             /\ r = ok(pre.T, pre.E, nullptr)
             /\ op \in {"map", "and_then", "match"} =>
                    /\ Len(log) = 1
                    /\ log[1].args = <<pre.data_.alt>>
             /\ op \in {"or_else", "map_err"} =>
                    /\ log = <<>>
                    /\ ret.result.data_.alt = pre.data_.alt
             /\ op = "map" /\ fn = "bump" =>
                    /\ Owns(ret.result)
                    /\ ValueIn(ret.result) =
                           make_unique((ValueIn(pre).pointee + 1) % (MaxVal + 1)))
    /\ [][/\ op = "chain" /\ trail.len >= 1 /\ trail.composed # <<>>
           /\ r.T # "void" /\ op' = "unwrap"
           => /\ ret' = RetT(trail.composed[1].value)
              /\ kind' = "&&" /\ r.T = "unique_ptr" => ~Owns(r')]_vars

C21_Witness ==
    /\ op = "unwrap"
    /\ kind = "&&"
    /\ chain = 2
    /\ pre = ok("unique_ptr", "Error", make_unique(2))
    /\ r = ok("unique_ptr", "Error", nullptr)
    /\ ret = RetT(make_unique(2))

\* C22: a factory fixes state and payload: ok(v) and ok_in_place(args...)
\* give an Ok Result holding v, respectively T built from args; err(e) and
\* err_in_place(args...) give an Err Result holding e, respectively E built
\* from args; err(message, code) gives Err(Error{message, code}), with code 0
\* when it is omitted.
C22_Factories ==
    /\ op = "ok" => IsOk(r) /\ ~IsErr(r)
    /\ op \in {"ok", "ok_in_place"} /\ r.T = "int" =>
           IsOk(r) /\ ~IsErr(r) /\ ValueIn(r) = arg[1]
    /\ op = "err" => IsErr(r) /\ ~IsOk(r) /\ ErrorEq(ErrorIn(r), arg[1])
    /\ op = "err_in_place" =>
           /\ IsErr(r) /\ ~IsOk(r)
           /\ r.E = "Error" => ErrorIn(r) = Error(arg[1], arg[2])
           /\ r.E = "CustomError" => ErrorIn(r) = CustomError(arg[1], arg[2])
    /\ op = "err_message" =>
           /\ IsErr(r) /\ ~IsOk(r)
           /\ r.E = "Error"
           /\ ErrorIn(r).message = arg[1]
           /\ ErrorIn(r).code = (IF Len(arg) = 2 THEN arg[2] ELSE 0)

C22_Witness ==
    /\ op = "err_message"
    /\ arg = <<"fail">>
    /\ r = err("int", "Error", Error("fail", 0))

\* C23: on a Result<void,E>, map(f) and and_then(f) on Ok invoke f exactly
\* once, with no argument, and match invokes ok_fn with no argument and never
\* err_fn; on Err none of them invokes f or ok_fn: map and and_then return
\* an Err holding the same error and match hands it to err_fn; to_optional()
\* holds an empty marker on Ok and is absent on Err.
C23_VoidCombinators ==
    pre.T = "void" =>
        /\ op \in {"map", "and_then"} /\ IsOk(pre) => log = <<Call(fn, <<>>)>>
        /\ op = "match" /\ IsOk(pre) =>
               /\ log = <<Call(OkFn(fn), <<>>)>>
               /\ ret = Invoke(OkFn(fn), "void", pre.E, <<>>)
        /\ op \in {"map", "and_then"} /\ IsErr(pre) =>
               /\ log = <<>>
               /\ IsErr(ret.result)
               /\ ErrorIn(ret.result) = ErrorIn(pre)
        /\ op = "match" /\ IsErr(pre) =>
               log = <<Call(ErrFn(fn), <<Err(ErrorIn(pre))>>)>>
        /\ op = "to_optional" =>
               ret = RetOptional(IF IsOk(pre) THEN <<monostate>> ELSE <<>>)

C23_Witness ==
    /\ op = "map"
    /\ fn = "one"
    /\ pre = void_ok("Error")
    /\ log = <<Call("one", <<>>)>>
    /\ ret = RetResult(ok("int", "Error", 1))

\* C24: on a Result<void,E>, unwrap() and expect(msg) return nothing and
\* throw nothing on Ok; on Err they throw std::runtime_error whose text is,
\* for the default Error type, the prefix (msg, or the fixed text of unwrap)
\* followed by ": " and the error's message, and for a custom error type
\* the prefix alone; the Result is left as it was.
C24_VoidUnwrapExpect ==
    pre.T = "void" /\ op \in {"unwrap", "expect"} =>
        LET prefix == IF op = "expect" THEN msg ELSE "Attempted to unwrap error result"
        IN  /\ r = pre
            /\ log = <<>>
            /\ IsOk(pre) => ret = RetVoid
            /\ IsErr(pre) /\ pre.E = "Error" =>
                   ret = Thrown(prefix \o ": " \o ErrorIn(pre).message)
            /\ IsErr(pre) /\ pre.E = "CustomError" => ret = Thrown(prefix)

C24_Witness ==
    /\ op = "expect"
    /\ msg = "custom"
    /\ pre = void_err("Error", Error("fail", 0))
    /\ ret = Thrown("custom: fail")

\* what unwrap, expect and the dereference throw on the Err Result self
ExpectThrown(self, prefix) ==
    IF self.E = "Error" THEN Thrown(prefix \o ": " \o ErrorIn(self).message)
    ELSE Thrown(prefix)

\* C25: dereference / member access, unwrap, expect, unwrap_err and
\* expect_err each exist for the four receiver kinds and give the same
\* payload or the same failure whichever the kind: a mutable receiver gets
\* mutable access and a const receiver const access, the lvalue kinds lend
\* a reference and leave the Result as it was, the rvalue kinds hand the
\* payload out and leave the receiver in the same state.
C25_FourKinds ==
    op \in {"operator*", "operator->", "unwrap", "expect", "unwrap_err", "expect_err"} =>
        /\ kind \in Kinds
        /\ IsOk(r) = IsOk(pre)
        /\ kind \in {"&", "const&"} => r = pre
        /\ op \in {"unwrap", "operator*"} =>
               ret = IF IsErr(pre) THEN ExpectThrown(pre, UnwrapMsg)
                     ELSE IF pre.T = "void" THEN RetVoid ELSE RetT(ValueIn(pre))
        /\ op = "expect" =>
               ret = IF IsErr(pre) THEN ExpectThrown(pre, msg)
                     ELSE IF pre.T = "void" THEN RetVoid ELSE RetT(ValueIn(pre))
        /\ op = "unwrap_err" =>
               ret = IF IsOk(pre) THEN Thrown(UnwrapErrMsg) ELSE RetE(ErrorIn(pre))
        /\ op = "expect_err" =>
               ret = IF IsOk(pre) THEN Thrown(msg) ELSE RetE(ErrorIn(pre))
        /\ op = "operator->" /\ IsErr(pre) => ret = ExpectThrown(pre, UnwrapMsg)
        /\ op = "operator->" /\ IsOk(pre) =>
               /\ ret.ptr = "value"
               /\ ret.is = IF kind \in {"&", "&&"} THEN "T*" ELSE "const T*"

\* C26: map, map_err, and_then and or_else return a new Result and leave an
\* lvalue receiver as it was, in state and in payload, whichever branch ran
\* (no callable of the model writes through its argument in these calls).
C26_ReceiverUnchanged ==
    op \in Combinators /\ kind \in {"&", "const&"} =>
        /\ ret.is = "Result"
        /\ r = pre
        /\ IsOk(r) = IsOk(pre)

C26_Witness ==
    /\ op = "or_else"
    /\ kind = "&"
    /\ fn = "recover"
    /\ pre = err("int", "Error", Error("fail", 1))
    /\ r = pre
    /\ log = <<Call("recover", <<Err(Error("fail", 1))>>)>>
    /\ ret = RetResult(ok("int", "Error", 1))

\* C27: a write made through the reference operator*() &, unwrap() & or
\* unwrap_err() & returned, or through the argument match() & hands to its
\* callable, lands in the Result itself: the Result keeps its state, and
\* the next unwrap() / unwrap_err() on it, whatever the overload, returns
\* what was written.
C27_WriteThrough ==
    /\ [](op \in {"write", "write_err"} => IsOk(r) = IsOk(pre))
    /\ [](op = "match" /\ WritesThrough(fn) =>
             /\ kind = "&"
             /\ IsOk(r) = IsOk(pre)
             /\ IsOk(pre) => log = <<Call("set_value", <<Ok(ValueIn(pre))>>)>>
             /\ IsErr(pre) => log = <<Call("set_message", <<Err(ErrorIn(pre))>>)>>)
    /\ [][/\ (op \in {"operator*", "unwrap"} /\ kind = "&" /\ op' = "write"
                => r' = ok(r.T, r.E, arg'[1]))
           /\ (op = "unwrap_err" /\ kind = "&" /\ op' = "write_err"
                => IsErr(r') /\ ErrorIn(r') = arg'[1])
           /\ (op = "write" /\ op' = "unwrap" => ret' = RetT(arg[1]))
           /\ (op = "write_err" /\ op' = "unwrap_err" => ret' = RetE(arg[1]))
           /\ (op = "match" /\ WritesThrough(fn) /\ IsOk(r) /\ op' = "unwrap"
                => ret' = RetT(WrittenValue))
           /\ (op = "match" /\ WritesThrough(fn) /\ IsErr(r) /\ op' = "unwrap_err"
                => ret' = RetE(WrittenError(ErrorIn(pre))))]_vars

C27_Witness ==
    /\ op = "match"
    /\ fn = "overwrite"
    /\ kind = "&"
    /\ pre = err("int", "Error", Error("fail", 0))
    /\ r = err("int", "Error", Error("handled", 0))

\* the invocations of named callables that a log shows, those made inside a
\* lambda included: x -> ok(g(x)) invokes g with the argument it was handed,
\* x -> f(x).and_then(g) invokes f with it and then whatever and_then(g)
\* invokes, the other lambdas invoke nothing.  T and E are the template
\* arguments of the receiver.
RECURSIVE Invocations(_, _, _)
Invocations(T, E, lg) ==
    IF lg = <<>> THEN <<>>
    ELSE LET c == Head(lg)
         IN  (IF c.fn \in ComposedFns
              THEN <<Call(ComposedOf(c.fn)[1], c.args)>>
                   \o AndThenImpl(Invoke(ComposedOf(c.fn)[1], T, E, c.args).result,
                                  "&&", ComposedOf(c.fn)[2]).log
              ELSE IF c.fn \notin Lambdas THEN <<c>>
              ELSE IF LambdaOf(c.fn)[1] = "ok_fn" /\ LambdaOf(c.fn)[2] = "map"
                   THEN <<Call(LambdaOf(c.fn)[3], c.args)>>
                   ELSE <<>>)
             \o Invocations(T, E, Tail(lg))

\* the pair of callables that describes the last call through match
DescribedLast ==
    CASE op \in {"map", "and_then", "or_else"} -> Described(op, fn)
      [] op = "unwrap_or" -> Described(op, ToString(arg[1]))
      [] op = "is_ok"     -> Described(op, "")

\* C28: match is the universal destructuring primitive: on every Result,
\* map(f) returns what match(x -> ok(f(x)), e -> err(e)) returns, and_then(f)
\* what match(f, e -> err(e)) returns, or_else(f) what match(x -> ok(x), f)
\* returns, unwrap_or(d) what match(x -> x, e -> d) returns and is_ok() what
\* match(x -> true, e -> false) returns, and each call invokes f exactly as
\* its description does.
C28_MatchDescribes ==
    op \in {"map", "and_then", "or_else", "unwrap_or", "is_ok"} =>
        /\ ret = MatchImpl(pre, kind, DescribedLast).ret
        /\ log = Invocations(pre.T, pre.E, MatchImpl(pre, kind, DescribedLast).log)

\* or_else(recover) on an Err Result<void,E> invoked recover once and
\* returned the Ok that match(() -> ok(), recover) returns; map(add_one) on
\* an Ok Result<int,E> is covered by the same comparison
C28_Witness ==
    /\ op = "or_else"
    /\ fn = "recover"
    /\ pre.T = "void"
    /\ pre.data_.index = 1
    /\ log = <<Call("recover", <<Err(pre.data_.alt)>>)>>
    /\ ret = MatchImpl(pre, kind, Described("or_else", "recover")).ret
    /\ ret.result = void_ok(pre.E)

\* the last call was an extraction that raised
FailedExtraction ==
    /\ op \in {"unwrap", "expect", "unwrap_err", "expect_err", "operator*", "operator->"}
    /\ ret.is = "std::runtime_error"

\* C29: a failed extraction leaves the Result untouched: after unwrap(),
\* expect(), unwrap_err(), expect_err() or a dereference has raised, the
\* receiver holds the state and the payload it held before; the same call made
\* again raises the same diagnostic, and the matching extraction made next
\* returns the original payload.
C29_FailedExtraction ==
    /\ [](FailedExtraction => r = pre)
    /\ [][(FailedExtraction /\ op' = op /\ msg' = msg) => ret' = ret]_vars
    /\ [][(FailedExtraction /\ pre.data_.index = 1 /\ op' \in {"unwrap_err", "expect_err"})
            => ret' = RetE(ErrorIn(pre))]_vars
    /\ [][(FailedExtraction /\ pre.data_.index = 0
                /\ op' \in {"unwrap", "expect", "operator*"})
            => ret' = IF pre.T = "void" THEN RetVoid ELSE RetT(ValueIn(pre))]_vars

\* unwrap() && raised on an Err Result<int,Error> whose message is not empty,
\* and the receiver still holds that error
C29_Witness ==
    /\ op = "unwrap"
    /\ kind = "&&"
    /\ ret.is = "std::runtime_error"
    /\ pre.T = "int"
    /\ pre.E = "Error"
    /\ pre.data_.index = 1
    /\ pre.data_.alt.error.message # ""
    /\ r = pre

\* C30: and_then is associative and has ok as right identity: whatever
\* Result-returning g is chained on the Result that r.and_then(f) returned,
\* the chain returns the Result that r.and_then(x -> f(x).and_then(g))
\* returns, in state and payload, and invokes f and g as often and with the
\* same arguments; r.and_then(x -> ok(x)) returns a Result equal to r.
C30_AndThenMonoid ==
    /\ [](op = "and_then" =>
            /\ \A g \in AndThenFns(ret.result.T) : \A k \in Kinds :
                   /\ AndThenImpl(ret.result, k, g).ret
                        = AndThenImpl(pre, kind, Composed(fn, g)).ret
                   /\ log \o AndThenImpl(ret.result, k, g).log
                        = Invocations(pre.T, pre.E,
                                      AndThenImpl(pre, kind, Composed(fn, g)).log)
            /\ (fn \in {"counter_fn", "v_unit"} => ret.result = pre))
    /\ [][(/\ op = "chain"
            /\ trail.len = 1
            /\ fn \in AndThenFns(pre.T)
            /\ (kind # "&&" \/ pre.data_.index = 0)
            /\ op' = "and_then")
           => /\ ret' = AndThenImpl(pre, kind, Composed(fn, fn')).ret
              /\ log \o log'
                   = Invocations(pre.T, pre.E,
                                 AndThenImpl(pre, kind, Composed(fn, fn')).log)]_vars

\* the second and_then of a chain on an Ok Result invoked parse on what the
\* first callable returned and came out Ok: both callables ran once
C30_Witness ==
    /\ op = "and_then"
    /\ fn = "parse"
    /\ trail.len = 2
    /\ trail.calls = 2
    /\ trail.failed = <<>>
    /\ log # <<>>
    /\ ret.result.data_.index = 0
====
